---- MODULE Spec2Model ----
(***************************************************************************)
(* Model of docs/xhive/misc.py: the `hivestatus` inline role, its HTML and *)
(* LaTeX visit/depart callbacks and the module-level colour table          *)
(* hive_colours filled by load_colours_if_needed().                         *)
(*                                                                         *)
(* Python strings that are sliced (the role text, status keys, labels) are *)
(* sequences of one-character strings.  Strings built with % formatting    *)
(* are sequences of their literal pieces and the substituted value.        *)
(* A JSON object is a function from its keys to its values; the values of  *)
(* the two status sub-tables carry a type tag, because the code tests      *)
(* them with isinstance(v, dict).                                           *)
(***************************************************************************)
EXTENDS Naturals, Sequences, FiniteSets

VARIABLES
    config,        \* os.environ["EHIVE_ROOT_DIR"] and the file hive_config.json
    hive_colours,  \* the module-level dict hive_colours
    text,          \* the text argument of the latest hivestatus_role call
    result,        \* what that call returned or raised
    node,          \* the hivestatus node the host is processing
    backend,       \* the translator rendering the node: "html" or "latex"
    body,          \* self.body of the translator: a list of strings
    pc,            \* the host's position in the life of the current node
    err,           \* the exception that reached the host, if any
    reads,         \* number of times hive_config.json has been opened
    edits,         \* number of times the environment has changed the config
    nodesDone      \* number of nodes rendered to the end

vars == <<config, hive_colours, text, result, node, backend, body, pc, err,
          reads, edits, nodesDone>>

----------------------------------------------------------------------------
(* Bounds *)

\* longest role text enumerated for hivestatus_role
MaxLen == 4
\* number of hivestatus nodes the host renders in one process
MaxNodes == 2
\* number of times the configuration changes under the running process
MaxEdits == 1

----------------------------------------------------------------------------
(* Values *)

Chars == {"<", ">", " ", "\t", "d"}
Whitespace == {" ", "\t"}

Texts == UNION {[1..n -> Chars] : n \in 0..MaxLen}

\* status labels of the configuration file, and one label it never holds
Labels == {<<"d">>, <<"r">>}
UnknownLabel == <<"u">>
Colours == {"#00ff00", "#ff0000"}

\* role invocations occurring in the documents of the modelled build
DocTexts ==
    {<<"<">> \o l \o <<">", " ", "x", ">", "y", " ">> : l \in Labels \cup {UnknownLabel}}
        \cup {<<"<", "d", " ", "x">>}

EmptyDict == CHOOSE f \in [{} -> {}] : TRUE

\* every JSON object with keys among K and values among V
Objects(K, V) == UNION {[D -> V] : D \in SUBSET K}

\* values of a status sub-table: a scalar, or an object with or without "Colour"
Scalar == [type |-> "scalar"]
Dict(items) == [type |-> "dict", items |-> items]
StatusValues == {Scalar} \cup {Dict(i) : i \in Objects({"Colour"}, Colours)}
StatusHashes == Objects(Labels, StatusValues)

Contents ==
    {EmptyDict, [Graph |-> EmptyDict]}
        \cup {[Graph |-> [Node |-> n]] :
                n \in Objects({"AnalysisStatus", "JobStatus"}, StatusHashes)}

EnvUnset == [env |-> FALSE, file |-> "missing", content |-> EmptyDict]
FileMissing == [env |-> TRUE, file |-> "missing", content |-> EmptyDict]
FileNotJSON == [env |-> TRUE, file |-> "invalid", content |-> EmptyDict]
Parsed(c) == [env |-> TRUE, file |-> "json", content |-> c]

Configs == {EnvUnset, FileMissing, FileNotJSON} \cup {Parsed(c) : c \in Contents}

NoExc == [type |-> "None", raised_in |-> "None"]
Exc(type, where) == [type |-> type, raised_in |-> where]

----------------------------------------------------------------------------
(* hivestatus_role *)

\* str.index: 0-based position of the first ch, or -1 standing for ValueError
IndexOf(s, ch) ==
    IF \E i \in 1..Len(s) : s[i] = ch
    THEN (CHOOSE i \in 1..Len(s) : s[i] = ch /\ \A j \in 1..(i-1) : s[j] # ch) - 1
    ELSE 0 - 1

\* Python slice s[lo:hi] for 0 <= lo
Slice(s, lo, hi) == SubSeq(s, lo + 1, hi)

RECURSIVE LStrip(_)
LStrip(s) == IF s # <<>> /\ Head(s) \in Whitespace THEN LStrip(Tail(s)) ELSE s

RECURSIVE RStrip(_)
RStrip(s) ==
    IF s # <<>> /\ s[Len(s)] \in Whitespace THEN RStrip(SubSeq(s, 1, Len(s) - 1)) ELSE s

\* str.strip()
Strip(s) == RStrip(LStrip(s))

hivestatus(status, label) == [status |-> status, children |-> <<label>>]

RoleLastGt(t) ==
    IF \E i \in 1..Len(t) : t[i] = ">"
    THEN (CHOOSE i \in 1..Len(t) : t[i] = ">" /\ \A j \in (i+1)..Len(t) : t[j] # ">") - 1
    ELSE 0 - 1
\* position of the delimiter the role splits at: text.index('>')
RoleDelimiter(t) == IndexOf(t, ">")

RoleWithFind(t) ==
    LET i == RoleDelimiter(t) IN
    IF i < 0
    THEN [exc |-> "None",
          nodes |-> <<hivestatus(SubSeq(t, 2, Len(t) - 1), Strip(t))>>,
          messages |-> <<>>]
    ELSE [exc |-> "None",
          nodes |-> <<hivestatus(Slice(t, 1, i), Strip(Slice(t, i + 1, Len(t))))>>,
          messages |-> <<>>]
\* what one call returns, or the exception it raises
hivestatus_role(t) ==
    LET i == RoleDelimiter(t) IN
    IF i < 0
    THEN [exc |-> "ValueError"]
    ELSE [exc |-> "None",
          nodes |-> <<hivestatus(Slice(t, 1, i), Strip(Slice(t, i + 1, Len(t))))>>,
          messages |-> <<>>]

----------------------------------------------------------------------------
(* load_colours_if_needed *)

StructuredKeys(h) == {s \in DOMAIN h : h[s].type = "dict"}
ColourlessKeys(h) == {s \in StructuredKeys(h) : "Colour" \notin DOMAIN h[s].items}

\* hive_colours[s] = h[s]["Colour"] for every s of K
Assign(table, h, K) ==
    [s \in DOMAIN table \cup K |-> IF s \in K THEN h[s].items["Colour"] ELSE table[s]]

MergeKeepFirst(table, h) ==
    IF ColourlessKeys(h) = {}
    THEN {[exc |-> "None",
           colours |-> Assign(table, h, StructuredKeys(h) \ DOMAIN table)]}
    ELSE {[exc |-> "KeyError", colours |-> Assign(table, h, K \ DOMAIN table)] :
            K \in SUBSET (StructuredKeys(h) \ ColourlessKeys(h))}
MergeAllKeys(table, h) ==
    IF ColourlessKeys(h) = {}
    THEN {[exc |-> "None",
           colours |-> [s \in DOMAIN table \cup DOMAIN h |->
                          IF s \in StructuredKeys(h) THEN h[s].items["Colour"]
                          ELSE IF s \in DOMAIN h THEN "scalar"
                          ELSE table[s]]]}
    ELSE {[exc |-> "KeyError", colours |-> Assign(table, h, K)] :
            K \in SUBSET (StructuredKeys(h) \ ColourlessKeys(h))}
\* one "for s in h" loop.  The loop raises KeyError at the first record without
\* "Colour"; the member order of the file decides which keys were stored by then.
Merge(table, h) ==
    IF ColourlessKeys(h) = {}
    THEN {[exc |-> "None", colours |-> Assign(table, h, StructuredKeys(h))]}
    ELSE {[exc |-> "KeyError", colours |-> Assign(table, h, K)] :
            K \in SUBSET (StructuredKeys(h) \ ColourlessKeys(h))}

Failed(type, table, read) == {[exc |-> type, colours |-> table, read |-> read]}

HasStatusHash(cfg, which) ==
    /\ cfg.env /\ cfg.file = "json"
    /\ "Graph" \in DOMAIN cfg.content
    /\ "Node" \in DOMAIN cfg.content.Graph
    /\ which \in DOMAIN cfg.content.Graph.Node

StatusHash(cfg, which) == cfg.content.Graph.Node[which]

JobStatusSkipped(cfg, table) == {[exc |-> "None", colours |-> table]}
\* lines 45-48: the JobStatus sub-table, merged second
JobStatusPart(cfg, table) ==
    IF ~HasStatusHash(cfg, "JobStatus")
    THEN {[exc |-> "KeyError", colours |-> table]}
    ELSE Merge(table, StatusHash(cfg, "JobStatus"))

LoadDefaultsWhenEnvUnset(cfg, table) ==
    IF ~cfg.env THEN {[exc |-> "None", colours |-> table, read |-> FALSE]}
    ELSE IF cfg.file = "missing" THEN Failed("IOError", table, FALSE)
    ELSE IF cfg.file = "invalid" THEN Failed("ValueError", table, TRUE)
    ELSE IF ~HasStatusHash(cfg, "AnalysisStatus") THEN Failed("KeyError", table, TRUE)
    ELSE UNION {
            IF a.exc # "None"
            THEN Failed(a.exc, a.colours, TRUE)
            ELSE {[exc |-> j.exc, colours |-> j.colours, read |-> TRUE] :
                    j \in JobStatusPart(cfg, a.colours)}
            : a \in Merge(table, StatusHash(cfg, "AnalysisStatus"))}
\* every way one call can end: the exception raised (or "None"), the table it
\* leaves behind, and whether the file was opened
load_colours_if_needed(cfg, table) ==
    IF ~cfg.env THEN Failed("KeyError", table, FALSE)
    ELSE IF cfg.file = "missing" THEN Failed("IOError", table, FALSE)
    ELSE IF cfg.file = "invalid" THEN Failed("ValueError", table, TRUE)
    ELSE IF ~HasStatusHash(cfg, "AnalysisStatus") THEN Failed("KeyError", table, TRUE)
    ELSE UNION {
            IF a.exc # "None"
            THEN Failed(a.exc, a.colours, TRUE)
            ELSE {[exc |-> j.exc, colours |-> j.colours, read |-> TRUE] :
                    j \in JobStatusPart(cfg, a.colours)}
            : a \in Merge(table, StatusHash(cfg, "AnalysisStatus"))}

----------------------------------------------------------------------------
(* visit_* / depart_* *)

LookupWithDefault(table, status) ==
    [exc |-> "None", value |-> IF status \in DOMAIN table THEN table[status] ELSE ""]
\* hive_colours[node['status']]
Lookup(table, status) ==
    IF status \in DOMAIN table
    THEN [exc |-> "None", value |-> table[status]]
    ELSE [exc |-> "KeyError"]

\* the string visit_hivestatus_html / visit_hivestatus_latex appends
OpeningFragment(b, colour) ==
    IF b = "html"
    THEN <<"<span style=\"background-color:", colour, "\">">>
    ELSE <<"\n", "\\colorbox{", colour, "}{">>

ClosingAlwaysSpan(b) == <<"</span>">>
\* the string depart_hivestatus_html / depart_hivestatus_latex appends
ClosingFragment(b) == IF b = "html" THEN <<"</span>">> ELSE <<"}">>

Backends == {"html", "latex"}

----------------------------------------------------------------------------
(* The environment: the configuration may change under the running process *)

OtherColour(c) == CHOOSE d \in Colours : d # c

RecolouredHash(h) ==
    [s \in DOMAIN h |->
        IF h[s].type = "dict" /\ "Colour" \in DOMAIN h[s].items
        THEN Dict([Colour |-> OtherColour(h[s].items["Colour"])])
        ELSE h[s]]

\* the same file with every Colour changed
Recoloured(cfg) ==
    IF HasStatusHash(cfg, "AnalysisStatus") \/ HasStatusHash(cfg, "JobStatus")
    THEN LET n == cfg.content.Graph.Node IN
         Parsed([Graph |-> [Node |-> [w \in DOMAIN n |-> RecolouredHash(n[w])]]])
    ELSE cfg

\* the same file with every status label removed from its sub-tables
Emptied(cfg) ==
    IF HasStatusHash(cfg, "AnalysisStatus") \/ HasStatusHash(cfg, "JobStatus")
    THEN LET n == cfg.content.Graph.Node IN
         Parsed([Graph |-> [Node |-> [w \in DOMAIN n |-> EmptyDict]]])
    ELSE cfg

ConfigEdits(cfg) == {EnvUnset, Recoloured(cfg), Emptied(cfg)} \ {cfg}

----------------------------------------------------------------------------
(* The process *)

NoNode == hivestatus(<<>>, <<>>)
NoResult == [exc |-> "NotCalled"]

Init ==
    /\ config \in Configs
    /\ hive_colours = EmptyDict
    /\ text = <<>>
    /\ result = NoResult
    /\ node = NoNode
    /\ backend = "none"
    /\ body = <<>>
    /\ pc = "idle"
    /\ err = NoExc
    /\ reads = 0
    /\ edits = 0
    /\ nodesDone = 0

\* the host meets a role in the source and hivestatus_role returns its node
RoleReturns(T) ==
    /\ pc = "idle" /\ nodesDone < MaxNodes
    /\ \E t \in T :
        /\ hivestatus_role(t).exc = "None"
        /\ text' = t
        /\ result' = hivestatus_role(t)
        /\ node' = hivestatus_role(t).nodes[1]
    /\ pc' = "node"
    /\ UNCHANGED <<config, hive_colours, backend, body, err, reads, edits, nodesDone>>

\* hivestatus_role raises and the exception reaches the host
RoleRaises(T) ==
    /\ pc = "idle" /\ nodesDone < MaxNodes
    /\ \E t \in T :
        /\ hivestatus_role(t).exc # "None"
        /\ text' = t
        /\ result' = hivestatus_role(t)
        /\ err' = Exc(hivestatus_role(t).exc, "hivestatus_role")
    /\ pc' = "aborted"
    /\ UNCHANGED <<config, hive_colours, node, backend, body, reads, edits, nodesDone>>

\* visit_hivestatus_html (b = "html") and visit_hivestatus_latex (b = "latex")
Visit(b) ==
    /\ pc = "node"
    /\ backend' = b
    /\ \E o \in load_colours_if_needed(config, hive_colours) :
        /\ hive_colours' = o.colours
        /\ reads' = reads + (IF o.read THEN 1 ELSE 0)
        /\ IF o.exc # "None"
           THEN /\ err' = Exc(o.exc, "load_colours_if_needed")
                /\ pc' = "aborted"
                /\ body' = body
           ELSE LET c == Lookup(o.colours, node.status) IN
                IF c.exc # "None"
                THEN /\ err' = Exc(c.exc, "visit_hivestatus")
                     /\ pc' = "aborted"
                     /\ body' = body
                ELSE /\ err' = err
                     /\ pc' = "entered"
                     /\ body' = Append(body, OpeningFragment(b, c.value))
    /\ UNCHANGED <<config, text, result, node, edits, nodesDone>>

visit_hivestatus_html == Visit("html")
visit_hivestatus_latex == Visit("latex")

\* between visit and depart the host renders the node's only child, the Text
HostVisitsText ==
    /\ pc = "entered"
    /\ body' = Append(body, node.children[1])
    /\ pc' = "text"
    /\ UNCHANGED <<config, hive_colours, text, result, node, backend, err, reads,
                   edits, nodesDone>>

Depart(b) ==
    /\ pc = "text" /\ backend = b
    /\ body' = Append(body, ClosingFragment(b))
    /\ pc' = "idle"
    /\ nodesDone' = nodesDone + 1
    /\ UNCHANGED <<config, hive_colours, text, result, node, backend, err, reads, edits>>

depart_hivestatus_html == Depart("html")
depart_hivestatus_latex == Depart("latex")

EditConfig ==
    /\ pc # "aborted" /\ edits < MaxEdits
    /\ config' \in ConfigEdits(config)
    /\ edits' = edits + 1
    /\ UNCHANGED <<hive_colours, text, result, node, backend, body, pc, err, reads,
                   nodesDone>>

Next ==
    \/ RoleReturns(DocTexts)
    \/ RoleRaises(DocTexts)
    \/ visit_hivestatus_html
    \/ visit_hivestatus_latex
    \/ HostVisitsText
    \/ depart_hivestatus_html
    \/ depart_hivestatus_latex
    \/ EditConfig

Spec == Init /\ [][Next]_vars

\* hivestatus_role alone, applied to every text of at most MaxLen characters
NextRole == RoleReturns(Texts) \/ RoleRaises(Texts)

InitRole == Init /\ config = EnvUnset

SpecRole == InitRole /\ [][NextRole]_vars

----------------------------------------------------------------------------
(* Properties *)

\* a step in which visit_hivestatus_html or visit_hivestatus_latex runs
VisitStep == pc = "node" /\ pc' # "node"
\* ... and its call of load_colours_if_needed returned without raising
LoadReturned == VisitStep /\ err'.raised_in # "load_colours_if_needed"
\* some earlier render-entry has loaded the table and found its colour
Populated == pc \in {"entered", "text"} \/ nodesDone > 0

RecordLabels(h) == {l \in DOMAIN h : h[l].type = "dict"}
ColourIn(h, l) == h[l].items["Colour"]
AnalysisStatus == config.content.Graph.Node["AnalysisStatus"]
JobStatus == config.content.Graph.Node["JobStatus"]
BothPresent ==
    /\ config.env /\ config.file = "json"
    /\ "Graph" \in DOMAIN config.content
    /\ "Node" \in DOMAIN config.content.Graph
    /\ {"AnalysisStatus", "JobStatus"} \subseteq DOMAIN config.content.Graph.Node

\* C1: over any sequence of render-entry calls the configuration file is read
\* at most once; every call after the first reads nothing.
C1_AtMostOneRead == reads <= 1

\* C2: with both sub-tables present, a load that starts from the empty table
\* and succeeds leaves every label that has a record in either sub-table mapped
\* to the Colour of such a record, and no label whose entries are only scalars.
C2_LoadFillsTable ==
    [][(LoadReturned /\ hive_colours = EmptyDict /\ BothPresent) =>
        \A l \in Labels \cup {UnknownLabel} :
            LET from == {ColourIn(AnalysisStatus, l) : x \in {l} \cap RecordLabels(AnalysisStatus)}
                          \cup {ColourIn(JobStatus, l) : x \in {l} \cap RecordLabels(JobStatus)}
            IN IF from # {}
               THEN l \in DOMAIN hive_colours' /\ hive_colours'[l] \in from
               ELSE l \notin DOMAIN hive_colours']_vars

C2_Witness ==
    /\ pc = "entered" /\ reads = 1 /\ edits = 0 /\ BothPresent
    /\ RecordLabels(AnalysisStatus) = {<<"d">>}
    /\ DOMAIN JobStatus = {<<"r">>} /\ RecordLabels(JobStatus) = {}
    /\ <<"r">> \notin DOMAIN AnalysisStatus
    /\ DOMAIN hive_colours = {<<"d">>}
    /\ hive_colours[<<"d">>] = ColourIn(AnalysisStatus, <<"d">>)

\* C3: after a successful load a label with a record in both sub-tables has the
\* Colour of its JobStatus record; a label whose JobStatus entry is a scalar
\* keeps the Colour of its AnalysisStatus record.
C3_JobStatusWins ==
    [][(LoadReturned /\ BothPresent) =>
        \A l \in RecordLabels(AnalysisStatus) \cap DOMAIN JobStatus :
            hive_colours'[l] =
                IF l \in RecordLabels(JobStatus)
                THEN ColourIn(JobStatus, l)
                ELSE ColourIn(AnalysisStatus, l)]_vars

C3_Witness ==
    /\ pc = "entered" /\ edits = 0 /\ BothPresent
    /\ RecordLabels(AnalysisStatus) = Labels
    /\ RecordLabels(JobStatus) = {<<"d">>} /\ <<"r">> \in DOMAIN JobStatus
    /\ ColourIn(AnalysisStatus, <<"d">>) = "#00ff00"
    /\ ColourIn(JobStatus, <<"d">>) = "#ff0000"
    /\ hive_colours[<<"d">>] = "#ff0000"
    /\ hive_colours[<<"r">>] = ColourIn(AnalysisStatus, <<"r">>)

HasGt(t) == \E i \in 1..Len(t) : t[i] = ">"
FirstGt(t) == CHOOSE i \in 1..Len(t) : t[i] = ">" /\ \A j \in 1..(i - 1) : t[j] # ">"
\* lab is s without its leading and trailing whitespace
IsTrimOf(lab, s) ==
    /\ \E a, b \in 0..Len(s) :
        /\ a + b <= Len(s)
        /\ \A i \in 1..a : s[i] \in Whitespace
        /\ \A i \in (Len(s) - b + 1)..Len(s) : s[i] \in Whitespace
        /\ lab = SubSeq(s, a + 1, Len(s) - b)
    /\ lab = <<>> \/ (lab[1] \notin Whitespace /\ lab[Len(lab)] \notin Whitespace)

\* C4: for a text containing '>' the role returns exactly one node and no
\* messages; the node's status is the text after the first character (the
\* leading '<') and before the first '>', and its single child is the text
\* after that first '>' with leading and trailing whitespace removed.
C4_RoleParses ==
    (result # NoResult /\ HasGt(text)) =>
        /\ result.exc = "None"
        /\ result.messages = <<>>
        /\ Len(result.nodes) = 1
        /\ result.nodes[1].status = [j \in 1..(FirstGt(text) - 2) |-> text[j + 1]]
        /\ Len(result.nodes[1].children) = 1
        /\ IsTrimOf(result.nodes[1].children[1],
                    [j \in 1..(Len(text) - FirstGt(text)) |-> text[FirstGt(text) + j]])
        /\ node = result.nodes[1]

C4_Witness ==
    /\ text = <<"<", "d", ">", ">">>
    /\ result.exc = "None"
    /\ result.nodes = <<[status |-> <<"d">>, children |-> <<<<">">>>>]>>

\* C5: for a text without '>' the role raises (ValueError from text.index, the
\* malformed-role error) and no node is produced.
C5_RoleRaises ==
    (result # NoResult /\ ~HasGt(text)) =>
        /\ result = [exc |-> "ValueError"]
        /\ err = Exc("ValueError", "hivestatus_role")
        /\ pc = "aborted"
        /\ node = NoNode

C5_Witness ==
    /\ text = <<"<", "d", " ", "d">>
    /\ pc = "aborted"
    /\ err.type = "ValueError"

HtmlOpening(c) == <<"<span style=\"background-color:", c, "\">">>
\* the output of the node being rendered, where the typeset opening fragment is
\* latexPrefix followed by '\colorbox{c}{': the opening with the looked-up
\* colour, then the label, then the closing
RenderedAs(latexPrefix) ==
    LET n == Len(body)
        c == hive_colours[node.status]
        opening == IF backend = "html"
                   THEN HtmlOpening(c)
                   ELSE latexPrefix \o <<"\\colorbox{", c, "}{">>
        closing == IF backend = "html" THEN <<"</span>">> ELSE <<"}">>
    IN /\ pc = "entered" => n = 3 * nodesDone + 1 /\ body[n] = opening
       /\ pc = "text" =>
            /\ n = 3 * nodesDone + 2
            /\ body[n - 1] = opening /\ body[n] = node.children[1]
       /\ (pc = "idle" /\ nodesDone > 0) =>
            /\ n = 3 * nodesDone
            /\ body[n - 2] = opening /\ body[n - 1] = node.children[1]
            /\ body[n] = closing

\* C6 as stated: render-entry appends exactly one opening fragment with the
\* looked-up colour c (HTML '<span style="background-color:c">', typeset
\* '\colorbox{c}{'), render-exit the matching closing ('</span>', '}'), and the
\* output of a node is opening, label unchanged, closing.
C6_Original == RenderedAs(<<>>)

\* C6 amended: the same, with the typeset opening fragment being a newline
\* followed by '\colorbox{c}{'.
C6_Amended == RenderedAs(<<"\n">>)

C6_Witness ==
    /\ pc = "idle" /\ nodesDone = 2 /\ backend = "latex"
    /\ body[1] = HtmlOpening("#00ff00")
    /\ body[4][3] = "#ff0000"
    /\ body[5] = <<"x", ">", "y">>

\* C7: render-entry of a node whose status is not a key of the table after
\* loading raises a lookup error and appends nothing to the body.
C7_UnknownStatusRaises ==
    [][(LoadReturned /\ node.status \notin DOMAIN hive_colours') =>
        /\ err' = Exc("KeyError", "visit_hivestatus")
        /\ pc' = "aborted"
        /\ body' = body]_vars

C7_Witness ==
    /\ pc = "aborted" /\ err = Exc("KeyError", "visit_hivestatus")
    /\ node.status = UnknownLabel
    /\ DOMAIN hive_colours = Labels
    /\ nodesDone = 1 /\ Len(body) = 3

\* C8: with the variable unset, the file missing or not JSON, or either
\* sub-table absent, the load raises, the exception leaves render-entry, and
\* render-entry appends nothing (no colour is looked up in any table).
C8_BrokenConfigRaises ==
    [][(VisitStep /\ ~BothPresent) =>
        /\ err'.raised_in = "load_colours_if_needed"
        /\ err'.type \in {"KeyError", "IOError", "ValueError"}
        /\ pc' = "aborted"
        /\ body' = body]_vars

C8_Witness ==
    /\ pc = "aborted" /\ err = Exc("KeyError", "load_colours_if_needed")
    /\ config = EnvUnset
    /\ nodesDone = 1 /\ Len(body) = 3
    /\ node.status \in DOMAIN hive_colours

\* C9: once populated, the table never changes again, whatever happens to the
\* configuration file.
C9_ReadOnlyOncePopulated == [][Populated => hive_colours' = hive_colours]_vars

\* C10: whenever render-entry emits an opening fragment, the table it looked
\* the colour up in holds every record label of both sub-tables of the
\* configuration.
C10_PopulatedBeforeLookup ==
    [][(VisitStep /\ body' # body) =>
        /\ BothPresent
        /\ RecordLabels(AnalysisStatus) \cup RecordLabels(JobStatus)
                \subseteq DOMAIN hive_colours'
        /\ node.status \in DOMAIN hive_colours']_vars

C10_Witness ==
    /\ pc = "entered" /\ edits = 0 /\ BothPresent
    /\ RecordLabels(AnalysisStatus) = {<<"d">>}
    /\ RecordLabels(JobStatus) = {<<"r">>}
    /\ node.status = <<"d">>
    /\ DOMAIN hive_colours = Labels
    /\ Len(body) = 1

====
